---------------------------- MODULE Spec2Model ----------------------------
(***************************************************************************)
(* Model of src/src/wind_analysis.py: the three analyzers that main runs   *)
(* on one country's loaded DataFrame (extreme_wind_analysis,               *)
(* reliability_analysis, calculate_power_output), callable in any order.   *)
(*                                                                         *)
(* Floats are modelled as exact rationals <<num, den>> in lowest terms,    *)
(* with NaN a separate value that fails every comparison and propagates    *)
(* through arithmetic, as IEEE NaN does in pandas.  A Series / DataFrame   *)
(* column is a sequence in index (time) order; a DataFrame is a function   *)
(* from column names to columns.                                           *)
(***************************************************************************)
EXTENDS Integers, Sequences, FiniteSets, TLC

VARIABLES loaded, data, ret

vars == <<loaded, data, ret>>

(***************************************************************************)
(* Bounds of the model.                                                    *)
(***************************************************************************)
\* longest series (rows of the DataFrame) explored
MaxLen == 4
\* longest list of thresholds passed to reliability_analysis
MaxThresholds == 2
\* rows per calendar month: the calendar scaled down so that a series of
\* MaxLen hourly rows spans several months
HoursPerMonth == 2

(***************************************************************************)
(* Numbers.                                                                *)
(***************************************************************************)
NaN == <<0, 0>>

RECURSIVE GCD(_, _)
GCD(a, b) == IF b = 0 THEN a ELSE GCD(b, a % b)

Rat(n, d) == IF d = 0 THEN NaN ELSE LET g == GCD(n, d) IN <<n \div g, d \div g>>

FromInt(n) == <<n, 1>>

IsNaN(x) == x[2] = 0

LtSwapped(a, b) == ~IsNaN(a) /\ ~IsNaN(b) /\ b[1] * a[2] < a[1] * b[2]

\* float comparisons: any comparison with NaN is False
Lt(a, b) == ~IsNaN(a) /\ ~IsNaN(b) /\ a[1] * b[2] < b[1] * a[2]

LeNaNPasses(a, b) == IsNaN(a) \/ a[1] * b[2] <= b[1] * a[2]

Le(a, b) == ~IsNaN(a) /\ ~IsNaN(b) /\ a[1] * b[2] <= b[1] * a[2]

GeStrict(a, b) == ~IsNaN(a) /\ ~IsNaN(b) /\ a[1] * b[2] > b[1] * a[2]

Ge(a, b) == ~IsNaN(a) /\ ~IsNaN(b) /\ a[1] * b[2] >= b[1] * a[2]

\* float arithmetic: NaN propagates
Add(a, b) == IF IsNaN(a) \/ IsNaN(b) THEN NaN ELSE Rat(a[1] * b[2] + b[1] * a[2], a[2] * b[2])

Mul(a, b) == IF IsNaN(a) \/ IsNaN(b) THEN NaN ELSE Rat(a[1] * b[1], a[2] * b[2])

\* a / b for b >= 0; numpy gives nan for 0 / 0 (the only zero division the
\* analyzers can perform: a count over a zero length)
Div(a, b) == IF IsNaN(a) \/ IsNaN(b) THEN NaN ELSE Rat(a[1] * b[2], a[2] * b[1])

Max(S) == CHOOSE m \in S : \A x \in S : x <= m

(***************************************************************************)
(* Inputs.                                                                 *)
(***************************************************************************)
\* the country column of the DataFrame (main: "DE", "DK", "NL", one frame each)
country_code == "DE"

\* default of extreme_wind_analysis
low_thr_default == Rat(35, 1000)

\* default of calculate_power_output
P_rated_default == 3000

\* capacity factors a loaded row can hold: a missing value, 0.035, 0.5
CapacityFactors == {NaN, Rat(35, 1000), Rat(1, 2)}

LowThresholds == {FromInt(0), low_thr_default}

HighThresholds == {Rat(1, 2), FromInt(1)}

\* 0.1 is the first default threshold of reliability_analysis
ReliabilityThresholds == {Rat(1, 10), Rat(1, 2), FromInt(1)}

RatedPowers == {1000, P_rated_default}

SeqsUpTo(S, n) == UNION {[1..k -> S] : k \in 0..n}

\* lists of thresholds: distinct values in any order, as the default list is
ThresholdLists(S, n) ==
    {s \in SeqsUpTo(S, n) : \A i \in 1..Len(s), j \in 1..Len(s) : i # j => s[i] # s[j]}

(***************************************************************************)
(* pandas primitives used by the analyzers.                                *)
(***************************************************************************)
\* df[name] = col
SetCol(df, name, col) ==
    [c \in DOMAIN df \cup {name} |-> IF c = name THEN col ELSE df[c]]

\* Series.sum() of a boolean column
CountTrue(col) == Cardinality({i \in 1..Len(col) : col[i]})

\* (col != col.shift()): the first row is compared with NaN and always differs
Differs(col, i) == i = 1 \/ col[i] # col[i - 1]

GroupIdsNoCumsum(col) ==
    [i \in 1..Len(col) |-> IF Differs(col, i) THEN 1 ELSE 0]

\* (col != col.shift()).cumsum()
GroupIds(col) ==
    [i \in 1..Len(col) |-> Cardinality({j \in 1..i : Differs(col, j)})]

\* groupby(groups).apply(lambda x: len(x) if <flag of x.iloc[0]> else 0):
\* one entry per group id, in ascending id order
GroupApply(groups, flag) ==
    LET ids == {groups[i] : i \in 1..Len(groups)}
        rows(g) == {i \in 1..Len(groups) : groups[i] = g}
        first(g) == CHOOSE i \in rows(g) : \A j \in rows(g) : i <= j
    IN  [g \in ids |-> IF flag[first(g)] THEN Cardinality(rows(g)) ELSE 0]

\* Series.sum(): missing values are skipped, the empty sum is 0
RECURSIVE Sum(_)
Sum(col) ==
    IF Len(col) = 0 THEN FromInt(0)
    ELSE IF IsNaN(Head(col)) THEN Sum(Tail(col))
    ELSE Add(Head(col), Sum(Tail(col)))

CountWithMissing(col) == Len(col)

\* Series.count(): the number of non-missing rows
Count(col) == Cardinality({i \in 1..Len(col) : ~IsNaN(col[i])})

\* Series.mean(): mean of the non-missing rows, NaN when there are none
Mean(col) == Div(Sum(col), FromInt(Count(col)))

\* the month (1, 2, ...) of row i of an hourly index starting at a month start
MonthOf(i) == ((i - 1) \div HoursPerMonth) + 1

\* Series.resample('ME').mean(): one mean per calendar month, in order
ResampleMonthlyMean(col) ==
    LET months == IF Len(col) = 0 THEN 0 ELSE MonthOf(Len(col))
        rows(m) == {i \in 1..Len(col) : MonthOf(i) = m}
        lo(m) == (m - 1) * HoursPerMonth + 1
    IN  [m \in 1..months |-> Mean(SubSeq(col, lo(m), lo(m) + Cardinality(rows(m)) - 1))]

(***************************************************************************)
(* 3. Extreme wind analysis.                                               *)
(***************************************************************************)
\* periods[periods > 0].max() if not periods.empty else 0
\* (the max of an empty selection is NaN)
MaxPositivePeriod(periods) ==
    IF DOMAIN periods = {} THEN FromInt(0)
    ELSE LET positive == {periods[g] : g \in DOMAIN periods} \ {0}
         IN  IF positive = {} THEN NaN ELSE FromInt(Max(positive))

\* the frame after the call (the columns are assigned on the caller's frame)
\* and the summary the call returns
extreme_wind_analysis(df, low_thr, high_thr) ==
    LET col == df[country_code]
        d1 == SetCol(df, "Low_Wind", [i \in 1..Len(col) |-> Le(col[i], low_thr)])
        d2 == SetCol(d1, "High_Wind", [i \in 1..Len(col) |-> Ge(col[i], high_thr)])
        d3 == SetCol(d2, "Low_Group", GroupIds(d2["Low_Wind"]))
        low_periods == GroupApply(d3["Low_Group"], d3["Low_Wind"])
        max_low_consec == MaxPositivePeriod(low_periods)
        d4 == SetCol(d3, "High_Group", GroupIds(d3["High_Wind"]))
        high_periods == GroupApply(d4["High_Group"], d4["High_Wind"])
        max_high_consec == MaxPositivePeriod(high_periods)
    IN  [data |-> d4,
         summary |-> [Low_Wind_Hours |-> CountTrue(d4["Low_Wind"]),
                      High_Wind_Hours |-> CountTrue(d4["High_Wind"]),
                      Max_Consec_Low |-> max_low_consec,
                      Max_Consec_High |-> max_high_consec]]

(***************************************************************************)
(* 4. Reliability analysis.                                                *)
(***************************************************************************)
\* one pass of the loop over thresholds
ReliabilityRecord(data_column, thr) ==
    LET total_hours == Len(data_column)
        rows == 1..Len(data_column)
        above == Div(FromInt(CountTrue([i \in rows |-> Ge(data_column[i], thr)])),
                     FromInt(total_hours))
        below == Div(FromInt(CountTrue([i \in rows |-> Lt(data_column[i], thr)])),
                     FromInt(total_hours))
        condition == [i \in rows |-> Lt(data_column[i], thr)]
        groups == GroupIds(condition)
        consecutive == GroupApply(groups, [i \in rows |-> Lt(data_column[i], thr)])
        max_consec == IF DOMAIN consecutive = {} THEN 0
                      ELSE Max({consecutive[g] : g \in DOMAIN consecutive})
    IN  [Threshold |-> thr,
         Probability_Above |-> above,
         Probability_Below |-> below,
         Max_Consec_Below |-> max_consec]

reliability_analysis_reversed(data_column, thresholds) ==
    [k \in 1..Len(thresholds) |->
        ReliabilityRecord(data_column, thresholds[Len(thresholds) + 1 - k])]

\* the rows of the returned DataFrame, one appended per threshold
reliability_analysis(data_column, thresholds) ==
    [k \in 1..Len(thresholds) |-> ReliabilityRecord(data_column, thresholds[k])]

(***************************************************************************)
(* 5. Capacity factor and power output.                                    *)
(***************************************************************************)
\* the tuple (df, CF, monthly_cf, AEP) the call returns; df is a copy of the
\* caller's frame with the Power_kW column added
calculate_power_output(frame, P_rated) ==
    LET col == frame[country_code]
        df == SetCol(frame, "Power_kW",
                     [i \in 1..Len(col) |-> Mul(col[i], FromInt(P_rated))])
    IN  [df |-> df,
         CF |-> Mean(df[country_code]),
         monthly_cf |-> ResampleMonthlyMean(df[country_code]),
         AEP |-> Div(Sum(df["Power_kW"]), FromInt(1000))]

(***************************************************************************)
(* The program: a loaded frame and the analyzer calls made on it.          *)
(***************************************************************************)
\* load_country_data: a frame holding the country column only
load_country_data(values) == [c \in {country_code} |-> values]

Init ==
    /\ loaded \in SeqsUpTo(CapacityFactors, MaxLen)
    /\ data = load_country_data(loaded)
    /\ ret = [op |-> "none"]

ExtremeWindAnalysis ==
    \E low_thr \in LowThresholds, high_thr \in HighThresholds :
        LET r == extreme_wind_analysis(data, low_thr, high_thr)
        IN  /\ data' = r.data
            /\ ret' = [op |-> "extreme_wind_analysis",
                       low_thr |-> low_thr, high_thr |-> high_thr,
                       raised |-> "none",
                       summary |-> r.summary]
            /\ UNCHANGED loaded

ReliabilityAnalysis ==
    \E thresholds \in ThresholdLists(ReliabilityThresholds, MaxThresholds) :
        /\ ret' = [op |-> "reliability_analysis",
                   thresholds |-> thresholds,
                   raised |-> "none",
                   results |-> reliability_analysis(data[country_code], thresholds)]
        /\ UNCHANGED <<loaded, data>>

CalculatePowerOutput ==
    \E P_rated \in RatedPowers :
        /\ ret' = [op |-> "calculate_power_output",
                   P_rated |-> P_rated,
                   raised |-> "none",
                   result |-> calculate_power_output(data, P_rated)]
        /\ UNCHANGED <<loaded, data>>

Next ==
    \/ ExtremeWindAnalysis
    \/ ReliabilityAnalysis
    \/ CalculatePowerOutput

Spec == Init /\ [][Next]_vars

(***************************************************************************)
(* Vocabulary of the properties, stated on the loaded series itself.       *)
(***************************************************************************)
Missing(x) == x = NaN

ValueLe(x, t) == ~Missing(x) /\ x[1] * t[2] <= t[1] * x[2]

ValueGe(x, t) == ~Missing(x) /\ x[1] * t[2] >= t[1] * x[2]

ValueLt(x, t) == ~Missing(x) /\ x[1] * t[2] < t[1] * x[2]

Rows == 1..Len(loaded)

ValidSamples == {i \in Rows : ~Missing(loaded[i])}

LowRows(t) == [i \in Rows |-> ValueLe(loaded[i], t)]

HighRows(t) == [i \in Rows |-> ValueGe(loaded[i], t)]

BelowRows(t) == [i \in Rows |-> ValueLt(loaded[i], t)]

MissingRows == [i \in Rows |-> Missing(loaded[i])]

SomeRow(q) == \E i \in 1..Len(q) : q[i]

\* length of the longest maximal contiguous block of True in q, 0 if none
LongestBlock(q) ==
    Max({l \in 0..Len(q) : l = 0 \/ \E i \in 1..(Len(q) - l + 1) :
                                        \A k \in i..(i + l - 1) : q[k]})

\* length of the block of True that ends at row i / starts at row j
BlockEndingAt(q, i) == Max({l \in 1..i : \A k \in (i - l + 1)..i : q[k]})

BlockStartingAt(q, j) ==
    Max({l \in 1..(Len(q) - j + 1) : \A k \in j..(j + l - 1) : q[k]})

\* rows i < j hold qualifying samples and everything between them is missing
IsGap(q, i, j) ==
    /\ j > i + 1
    /\ q[i] /\ q[j]
    /\ \A k \in (i + 1)..(j - 1) : Missing(loaded[k])

HasGap(q) == \E i \in Rows, j \in Rows : IsGap(q, i, j)

\* the run is that of the blocks alone: it is the longest block of q, and where
\* the two blocks around a gap are all the qualifying rows there are, it is
\* the longer of the two and less than the two joined
NotBridged(q, run) ==
    /\ run = LongestBlock(q)
    /\ \A i \in Rows, j \in Rows :
          (/\ IsGap(q, i, j)
           /\ CountTrue(q) = BlockEndingAt(q, i) + BlockStartingAt(q, j))
          => /\ run = Max({BlockEndingAt(q, i), BlockStartingAt(q, j)})
             /\ run < BlockEndingAt(q, i) + BlockStartingAt(q, j)

IsExtreme == ret.op = "extreme_wind_analysis"

IsReliability == ret.op = "reliability_analysis"

IsPower == ret.op = "calculate_power_output"

(***************************************************************************)
(* Properties.                                                             *)
(***************************************************************************)
\* C1: for every series with at least one non-missing sample and every
\* threshold, each record returned by reliability_analysis has
\* Probability_Above + Probability_Below = 1.
C1_ProbabilitiesSumToOne ==
    (IsReliability /\ ValidSamples # {}) =>
        \A k \in 1..Len(ret.results) :
            Add(ret.results[k].Probability_Above,
                ret.results[k].Probability_Below) = FromInt(1)

\* C2: where no sample qualifies (and for the empty series),
\* extreme_wind_analysis returns the integer 0 as Max_Consec_Low,
\* respectively Max_Consec_High.
C2_NoRunIsZero ==
    IsExtreme =>
        /\ ~SomeRow(LowRows(ret.low_thr)) => ret.summary.Max_Consec_Low = FromInt(0)
        /\ ~SomeRow(HighRows(ret.high_thr)) => ret.summary.Max_Consec_High = FromInt(0)

\* the run a summary reports for a condition that some sample satisfies
RunIsLongestBlock(q, run) ==
    SomeRow(q) =>
        /\ run = FromInt(LongestBlock(q))
        /\ \E n \in 1..Len(loaded) : run = FromInt(n)
        /\ CountTrue(q) = 1 => run = FromInt(1)
        /\ q = <<TRUE, TRUE, FALSE, TRUE>> => run = FromInt(2)

\* C3: where at least one sample qualifies, Max_Consec_Low (Max_Consec_High)
\* is the length of the longest maximal contiguous block of samples with
\* value <= low_thr (>= high_thr); it lies in [1, length of the series], is 1
\* for a single qualifying sample and 2 for [True, True, False, True].
C3_MaxConsecIsLongestBlock ==
    IsExtreme =>
        /\ RunIsLongestBlock(LowRows(ret.low_thr), ret.summary.Max_Consec_Low)
        /\ RunIsLongestBlock(HighRows(ret.high_thr), ret.summary.Max_Consec_High)

C3_Witness ==
    /\ IsExtreme
    /\ LowRows(ret.low_thr) = <<TRUE, TRUE, FALSE, TRUE>>
    /\ ret.summary.Max_Consec_Low = FromInt(2)
    /\ CountTrue(HighRows(ret.high_thr)) = 1
    /\ ret.summary.Max_Consec_High = FromInt(1)

\* C4: a missing value breaks a run: where two blocks of qualifying samples
\* are separated only by missing values, Max_Consec_Low, Max_Consec_High and
\* Max_Consec_Below are the length of the longer block alone, never the
\* length bridging the gap.
C4_MissingBreaksRun ==
    /\ IsExtreme =>
        /\ HasGap(LowRows(ret.low_thr)) =>
              /\ ~IsNaN(ret.summary.Max_Consec_Low)
              /\ NotBridged(LowRows(ret.low_thr), ret.summary.Max_Consec_Low[1])
        /\ HasGap(HighRows(ret.high_thr)) =>
              /\ ~IsNaN(ret.summary.Max_Consec_High)
              /\ NotBridged(HighRows(ret.high_thr), ret.summary.Max_Consec_High[1])
    /\ IsReliability =>
        \A k \in 1..Len(ret.results) :
            HasGap(BelowRows(ret.thresholds[k])) =>
                NotBridged(BelowRows(ret.thresholds[k]), ret.results[k].Max_Consec_Below)

C4_Witness ==
    /\ IsReliability
    /\ Len(ret.results) = 1
    /\ BelowRows(ret.thresholds[1]) = <<TRUE, FALSE, TRUE, TRUE>>
    /\ MissingRows = <<FALSE, TRUE, FALSE, FALSE>>
    /\ ret.results[1].Max_Consec_Below = 2

\* C5: Low_Wind_Hours is the number of samples with value <= low_thr and
\* High_Wind_Hours the number with value >= high_thr, both inclusive; a
\* missing value is counted in neither.
C5_HoursCountQualifyingSamples ==
    IsExtreme =>
        /\ ret.summary.Low_Wind_Hours =
              Cardinality({i \in ValidSamples : ValueLe(loaded[i], ret.low_thr)})
        /\ ret.summary.High_Wind_Hours =
              Cardinality({i \in ValidSamples : ValueGe(loaded[i], ret.high_thr)})

C5_Witness ==
    /\ IsExtreme
    /\ \E i \in Rows : loaded[i] = ret.low_thr
    /\ \E i \in Rows : loaded[i] = ret.high_thr
    /\ \E i \in Rows : Missing(loaded[i])
    /\ ret.summary.Low_Wind_Hours = 1
    /\ ret.summary.High_Wind_Hours = 2

\* C6: for a series with zero valid samples (empty, or every value missing)
\* each analysis reports a DataError instead of returning statistics.
C6_NoValidSamplesIsDataError ==
    (ret.op # "none" /\ ValidSamples = {}) => ret.raised = "DataError"

\* the sum over the non-missing samples of value x P_rated
RECURSIVE EnergyOfValid(_, _)
EnergyOfValid(S, P_rated) ==
    IF S = {} THEN FromInt(0)
    ELSE LET i == CHOOSE x \in S : TRUE
         IN  Add(Mul(loaded[i], FromInt(P_rated)), EnergyOfValid(S \ {i}, P_rated))

\* C7: AEP is the sum over the non-missing samples of value x P_rated, divided
\* by 1000, and CF the mean of the non-missing values only; [0.5, 0.5, 0.5]
\* with P_rated = 1000 gives CF = 0.5 and AEP = 1.5.
C7_PowerOutput ==
    IsPower =>
        /\ ret.result.AEP = Div(EnergyOfValid(ValidSamples, ret.P_rated), FromInt(1000))
        /\ ValidSamples # {} =>
              ret.result.CF = Div(EnergyOfValid(ValidSamples, 1),
                                  FromInt(Cardinality(ValidSamples)))
        /\ (loaded = <<Rat(1, 2), Rat(1, 2), Rat(1, 2)>> /\ ret.P_rated = 1000) =>
              /\ ret.result.CF = Rat(1, 2)
              /\ ret.result.AEP = Rat(3, 2)

C7_Witness ==
    /\ IsPower
    /\ loaded = <<Rat(1, 2), NaN, Rat(1, 2)>>
    /\ ret.P_rated = 1000
    /\ ret.result.CF = Rat(1, 2)
    /\ ret.result.AEP = FromInt(1)

\* C8: whatever calls were made before it on the same loaded data, everything
\* a call returns is what that call returns as the only call on the freshly
\* loaded data.
C8_CallsAreIndependent ==
    /\ IsExtreme =>
          ret.summary = extreme_wind_analysis(load_country_data(loaded),
                                              ret.low_thr, ret.high_thr).summary
    /\ IsReliability =>
          ret.results = reliability_analysis(load_country_data(loaded)[country_code],
                                             ret.thresholds)
    /\ IsPower =>
          ret.result = calculate_power_output(load_country_data(loaded), ret.P_rated)

\* C9: reliability_analysis returns exactly one record per threshold in the
\* caller's order, and the Max_Consec_Below of the record for threshold t is
\* the length of the longest block of samples with value < t (strict), 0 when
\* no sample is below t.
C9_OneRecordPerThresholdInOrder ==
    IsReliability =>
        /\ Len(ret.results) = Len(ret.thresholds)
        /\ \A k \in 1..Len(ret.thresholds) :
              /\ ret.results[k].Threshold = ret.thresholds[k]
              /\ ret.results[k].Max_Consec_Below = LongestBlock(BelowRows(ret.thresholds[k]))
              /\ ~SomeRow(BelowRows(ret.thresholds[k])) => ret.results[k].Max_Consec_Below = 0

C9_Witness ==
    /\ IsReliability
    /\ ret.thresholds = <<FromInt(1), Rat(1, 2)>>
    /\ \E i \in Rows : loaded[i] = Rat(1, 2)
    /\ ret.results[1].Max_Consec_Below = 2
    /\ ret.results[2].Max_Consec_Below = 0

RatLe(a, b) == ~IsNaN(a) /\ ~IsNaN(b) /\ a[1] * b[2] <= b[1] * a[2]

\* C10: for a non-empty series and thresholds t1 <= t2 of one call,
\* Probability_Above(t1) >= Probability_Above(t2), Probability_Below(t1) <=
\* Probability_Below(t2) and Max_Consec_Below(t1) <= Max_Consec_Below(t2).
C10_MonotoneInThreshold ==
    (IsReliability /\ Len(loaded) > 0) =>
        \A j \in 1..Len(ret.results), k \in 1..Len(ret.results) :
            RatLe(ret.thresholds[j], ret.thresholds[k]) =>
                /\ RatLe(ret.results[k].Probability_Above, ret.results[j].Probability_Above)
                /\ RatLe(ret.results[j].Probability_Below, ret.results[k].Probability_Below)
                /\ ret.results[j].Max_Consec_Below <= ret.results[k].Max_Consec_Below

C10_Witness ==
    /\ IsReliability
    /\ ret.thresholds = <<Rat(1, 2), FromInt(1)>>
    /\ \E i \in Rows : Missing(loaded[i])
    /\ ret.results[1].Probability_Below = Rat(1, 4)
    /\ ret.results[2].Probability_Below = Rat(1, 2)
    /\ ret.results[1].Max_Consec_Below < ret.results[2].Max_Consec_Below

====
